---- MODULE Spec2Model ----
(***************************************************************************)
(* Battleships: the Board (grid, shot resolution) and the persisted Game   *)
(* (join / shoot / winner, two-slot player list with current_idx) of       *)
(* src/app/api/models.py.                                                  *)
(*                                                                         *)
(* A grid is a sequence of 100 one-character strings; python's 0-based     *)
(* index xy is element xy + 1 of the sequence.                             *)
(***************************************************************************)
EXTENDS Integers, Sequences, FiniteSets, TLC

VARIABLES
    state,        \* Game.state
    current_idx,  \* Game.current_idx (NoIdx models None)
    players,      \* Game.players: sequence of Player objects
    game_id,      \* Game.id (NoId models None)
    player_id,    \* Player.id of every Player object (NoId models None)
    boards,       \* Player.board of every Player object: [starting_grid, grid]
    op,           \* the operation called last
    arg,          \* its player or player_name argument: [player, name]
    ret,          \* what the last call returned or raised: [ok, val]
    shot,         \* history: per Player object, the cells a Board.shoot succeeded on
    tally,        \* history: per Player object and ship, the 'Hit' and 'Sunk' outcomes so far
    joins,        \* history: the Player objects whose join succeeded, in order
    shooter,      \* history: the Player whose Game.shoot succeeded last
    m_state,      \* the plain Game of src/models.py: Game.state
    m_current,    \* Game.current (a Player object, or NoPlayer for None)
    m_other,      \* Game.other
    m_boards,     \* the board of every Player object of src/models.py
    m_ret,        \* what the last call of the plain Game returned or raised
    m_shot,       \* history: per Player object, the cells shot with success
    in_grid,      \* the grid string passed to Board(grid)
    new_board,    \* the Board that Board(grid) constructed (NoBoard: none)
    db,           \* the committed rows of the games table, by id, with their players
    req,          \* per create_game request: where it is, the game it found, the Game of its session
    status        \* what the last game_status request returned or raised

dbvars == <<state, current_idx, players, game_id, player_id, boards,
            ret, shot, tally, joins, shooter>>

memvars == <<m_state, m_current, m_other, m_boards, m_ret, m_shot>>

apivars == <<in_grid, new_board, db, req, status>>

vars == <<dbvars, memvars, apivars, op, arg>>

-----------------------------------------------------------------------------
(* Bounds of the model *)

\* Player objects that exist (the fixtures player1, player2 and a third player).
NumPlayers == 3

\* create_game requests that are served, one Player object each.
NumRequests == 3

\* Game.shoot is called with one of the GameWindow targets before, or of the
\* GameWindow targets from, the first target not yet shot (in index order).
GameWindow == 1

\* The same for the calls of Board.shoot on a board on its own.
BoardWindow == 5

-----------------------------------------------------------------------------
(* Program constants *)

N == 10

HIT == "+"
MISS == "-"
SUNK == "x"
Board_ACTIONS == {HIT, MISS, SUNK}
NO_ACTION == "."

NoIdx == -1
NoId == 0

Symbols == {"C", "B", "R", "S", "D"}

symbol_to_ship ==
    [s \in Symbols |->
        CASE s = "C" -> [name |-> "Carrier",    symbol |-> "C", size |-> 5]
          [] s = "B" -> [name |-> "Battleship", symbol |-> "B", size |-> 4]
          [] s = "R" -> [name |-> "Cruiser",    symbol |-> "R", size |-> 3]
          [] s = "S" -> [name |-> "Submarine",  symbol |-> "S", size |-> 3]
          [] s = "D" -> [name |-> "Destroyer",  symbol |-> "D", size |-> 2]]

Cells == 0 .. (N * N - 1)

-----------------------------------------------------------------------------
(* Board *)

\* Board._to_1d
to_1d(x, y) == y * N + x

\* grid[xy] of python, for a 0-based xy
At(grid, xy) == grid[xy + 1]

\* faulty variant: grid[:xy] + mark + grid[xy:]
Splice_KeepCell(grid, xy, mark) ==
    SubSeq(grid, 1, xy) \o <<mark>> \o SubSeq(grid, xy + 1, Len(grid))

\* grid[:xy] + mark + grid[xy + 1:]
Splice(grid, xy, mark) ==
    SubSeq(grid, 1, xy) \o <<mark>> \o SubSeq(grid, xy + 2, Len(grid))

\* symbol in grid
InGrid(symbol, grid) == \E i \in 1 .. Len(grid) : grid[i] = symbol

\* set(grid)
CharSet(grid) == {grid[i] : i \in 1 .. Len(grid)}

\* Counter(grid)[symbol]
Count(grid, symbol) == Cardinality({i \in 1 .. Len(grid) : grid[i] = symbol})

\* grid.index(symbol), 0-based; the callers have checked that symbol occurs
IndexOf(grid, symbol) ==
    (CHOOSE i \in 1 .. Len(grid) :
        /\ grid[i] = symbol
        /\ \A j \in 1 .. (i - 1) : grid[j] # symbol) - 1

\* Board.grid_as_matrix: the rows grid[i : i + N]
grid_as_matrix(grid) ==
    [r \in 1 .. ((Len(grid) + N - 1) \div N) |->
        SubSeq(grid, (r - 1) * N + 1,
               IF r * N < Len(grid) THEN r * N ELSE Len(grid))]

\* [''.join(r) for r in zip(*g)] of a matrix with rows of equal length
Transpose(g) ==
    [c \in 1 .. Len(g[1]) |-> [r \in 1 .. Len(g) |-> g[r][c]]]

\* faulty variant: the placement check that keeps the row and column of the
\* first cell after transposing
ShipPlaced_KeepRowCol(grid, symbol) ==
    LET g0 == grid_as_matrix(grid)
        i0 == IndexOf(grid, symbol)
        row == i0 \div N
        col == i0 % N
        vertical == Count(g0[row + 1], symbol) = 1
        g == IF vertical THEN Transpose(g0) ELSE g0
        size == symbol_to_ship[symbol].size
    IN  ~(\/ col + size > N
          \/ SubSeq(g[row + 1], col + 1, col + size) # [k \in 1 .. size |-> symbol])

\* The placement check of one ship, the body of the last loop of
\* Board.validate_starting_grid: TRUE when the ship is placed correctly.
ShipPlaced(grid, symbol) ==
    LET g0 == grid_as_matrix(grid)
        i0 == IndexOf(grid, symbol)
        row0 == i0 \div N
        col0 == i0 % N
        symbols_in_row == Count(g0[row0 + 1], symbol)
        vertical == symbols_in_row = 1
        g == IF vertical THEN Transpose(g0) ELSE g0
        r1 == CHOOSE r \in 0 .. (N - 1) :
                  /\ InGrid(symbol, g[r + 1])
                  /\ \A q \in 0 .. (r - 1) : ~InGrid(symbol, g[q + 1])
        row == IF vertical THEN r1 ELSE row0
        col == IF vertical THEN IndexOf(g[r1 + 1], symbol) ELSE col0
        size == symbol_to_ship[symbol].size
    IN  ~(\/ col + size > N
          \/ SubSeq(g[row + 1], col + 1, col + size) # [k \in 1 .. size |-> symbol])

\* Board.validate_starting_grid: "ok", or the error it raises
validate_starting_grid(grid) ==
    IF Len(grid) # N * N THEN "length"
    ELSE IF \E s \in Symbols : symbol_to_ship[s].size # Count(grid, s) THEN "sizes"
    ELSE IF CharSet(grid) # (Symbols \cup {NO_ACTION}) THEN "characters"
    ELSE IF \E s \in Symbols : ~ShipPlaced(grid, s) THEN "placement"
    ELSE "ok"

\* Board.__init__ of a grid that validates
Board(starting_grid) == [starting_grid |-> starting_grid, grid |-> starting_grid]

\* faulty variant: can_shoot_at that only refuses a MISS cell
can_shoot_at_OnlyMiss(b, x, y) == At(b.grid, to_1d(x, y)) # MISS

\* Board.can_shoot_at
can_shoot_at(b, x, y) ==
    LET xy == to_1d(x, y) IN At(b.grid, xy) = At(b.starting_grid, xy)

\* f'Hit {symbol_to_ship[symbol].name}' and f'Sunk {...}': the lookup raises
\* KeyError for a symbol that is no ship
Outcome(kind, symbol) ==
    IF symbol \in Symbols
    THEN [ok |-> TRUE, val |-> <<kind, symbol_to_ship[symbol].name>>]
    ELSE [ok |-> FALSE, val |-> <<"KeyError">>]

\* faulty variant: a miss that leaves no marker
MarkMiss_Keep(grid, xy) == grid

\* self.grid[:xy] + self.MISS + self.grid[xy + 1:]
MarkMiss(grid, xy) == Splice(grid, xy, MISS)

\* self.grid[:xy] + self.HIT + self.grid[xy + 1:]
MarkHit(grid, xy) == Splice(grid, xy, HIT)

\* faulty variant: the ship taken as sunk one cell early
StillAfloat_OffByOne(symbol, grid) == Count(grid, symbol) > 1

\* faulty variant: a ship that is never taken as sunk
StillAfloat_Always(symbol, grid) == TRUE

\* symbol in self.grid, asked after the cell was marked HIT
StillAfloat(symbol, grid) == InGrid(symbol, grid)

\* faulty variant: the sinking shot that leaves the earlier HIT markers
MarkSunk_KeepHits(starting_grid, grid, symbol) ==
    [i \in 1 .. (N * N) |->
        IF starting_grid[i] = symbol /\ grid[i] = symbol THEN SUNK ELSE grid[i]]

\* the grid with SUNK wherever starting_grid holds symbol
MarkSunk(starting_grid, grid, symbol) ==
    [i \in 1 .. (N * N) |-> IF starting_grid[i] # symbol THEN grid[i] ELSE SUNK]

\* Board.shoot: [ok, val, board], where board is the board after the call,
\* val the string returned (as a tuple of its words) or the error raised
Board_shoot(b, x, y) ==
    LET xy == to_1d(x, y) IN
    IF ~can_shoot_at(b, x, y)
    THEN [ok |-> FALSE, val |-> <<"acted">>, board |-> b]
    ELSE IF At(b.grid, xy) = NO_ACTION
    THEN [ok |-> TRUE, val |-> <<"Miss">>,
          board |-> [b EXCEPT !.grid = MarkMiss(b.grid, xy)]]
    ELSE
        LET symbol == At(b.grid, xy)
            hit == MarkHit(b.grid, xy)
        IN  IF StillAfloat(symbol, hit)
            THEN LET o == Outcome("Hit", symbol)
                 IN  [ok |-> o.ok, val |-> o.val,
                      board |-> [b EXCEPT !.grid = hit]]
            ELSE LET o == Outcome("Sunk", symbol)
                 IN  [ok |-> o.ok, val |-> o.val,
                      board |-> [b EXCEPT !.grid =
                                    MarkSunk(b.starting_grid, hit, symbol)]]

\* faulty variant: no_ships that forgets the empty marker
no_ships_NoEmpty(b) == CharSet(b.grid) \subseteq Board_ACTIONS

\* Board.no_ships
no_ships(b) == CharSet(b.grid) \subseteq (Board_ACTIONS \cup {NO_ACTION})

\* faulty variant: only the ships without any hit count as remaining
remaining_ships_Unhit(b) ==
    {s \in Symbols : Count(b.grid, s) = symbol_to_ship[s].size}

\* Board.remaining_ships
remaining_ships(b) == CharSet(b.grid) \cap Symbols

\* Board.sunk_ships
sunk_ships(b) == Symbols \ remaining_ships(b)

\* faulty variant: the view that hands out the grid while ships remain
enemy_view_Raw(b) == b.grid

\* faulty variant: the view that stays masked when no ship is left
enemy_view_Masked(b) ==
    [i \in 1 .. (N * N) |->
        IF b.grid[i] \in Board_ACTIONS THEN b.grid[i] ELSE " "]

\* Board.enemy_view
enemy_view(b) ==
    IF no_ships(b) THEN b.grid
    ELSE [i \in 1 .. (N * N) |->
             IF b.grid[i] \in Board_ACTIONS THEN b.grid[i] ELSE " "]

-----------------------------------------------------------------------------
(* Starting grids of the tests *)

Dots(n) == [i \in 1 .. n |-> NO_ACTION]

\* conftest.board_factory's standard_grid
StandardGrid ==
    <<"C","C","C","C","C","S","S","S","D","D">> \o
    <<"B","B","B","B","R","R","R",".",".",".">> \o Dots(80)

\* the third valid grid of test_starting_grid_validation
VerticalGrid ==
    <<"C">> \o Dots(9) \o
    <<"C","B","B","B","B">> \o Dots(5) \o
    <<"C","R","R","R">> \o Dots(6) \o
    <<"C","S","S","S">> \o Dots(6) \o
    <<"C","D","D">> \o Dots(7) \o Dots(50)

Grids == <<StandardGrid, VerticalGrid>>

-----------------------------------------------------------------------------
(* Player objects: the fixtures of the tests *)

Players == 1 .. NumPlayers
NoPlayer == 0

\* Player.name: two names, so that two Player objects can bear the same name
PlayerName(p) == IF p % 2 = 1 THEN "p1" ELSE "p2"

Names == {PlayerName(p) : p \in Players} \cup {""}

\* the grid the Player's Board is constructed from
PlayerGrid(p) == Grids[(((p - 1) \div 2) % Len(Grids)) + 1]

\* Empty cells callers shoot at besides the ship cells: (9, 9) of test_miss,
\* and (7, 1)
MissCells == {to_1d(9, 9), to_1d(7, 1)}

\* The cells of a board with starting_grid callers aim at
Targets(starting_grid) ==
    {xy \in Cells : At(starting_grid, xy) # NO_ACTION \/ xy \in MissCells}

PlayerTargets == [p \in Players |-> Targets(PlayerGrid(p))]

\* The cells a caller passes for the board of Player p of which the cells sh
\* were shot: the targets around the first target not yet shot (in index
\* order), the w targets before it and the w targets from it on
Aim(p, sh, w) ==
    LET targets == PlayerTargets[p]
        fresh == targets \ sh
        pos(xy) == Cardinality({d \in targets : d < xy})
        first == IF fresh = {} THEN Cardinality(targets)
                 ELSE pos(CHOOSE f \in fresh : \A g \in fresh : f <= g)
    IN  {xy \in targets : first - w <= pos(xy) /\ pos(xy) < first + w}

\* the (x, y) of a cell
X(xy) == xy % N
Y(xy) == xy \div N

ZeroTally == [s \in Symbols |-> [hit |-> 0, sunk |-> 0]]

\* the history of the shots on one board, after Board.shoot returned r
NoteShot(sh, r, xy) == IF r.ok THEN sh \cup {xy} ELSE sh

NoteOutcome(t, r) ==
    IF r.ok /\ r.val[1] \in {"Hit", "Sunk"}
    THEN LET s == CHOOSE q \in Symbols : symbol_to_ship[q].name = r.val[2]
         IN  IF r.val[1] = "Hit"
             THEN [t EXCEPT ![s].hit = @ + 1]
             ELSE [t EXCEPT ![s].sunk = @ + 1]
    ELSE t

-----------------------------------------------------------------------------
(* Game (persisted) *)

\* faulty variant: current as the player who joined last
current_Last == IF Len(players) # 0 THEN players[Len(players)] ELSE NoPlayer

\* Game.current
current == IF Len(players) # 0 THEN players[current_idx + 1] ELSE NoPlayer

\* faulty variant: other as the player whose turn it is
other_Current == IF Len(players) = 2 THEN players[current_idx + 1] ELSE NoPlayer

\* Game.other
other == IF Len(players) = 2 THEN players[((current_idx + 1) % 2) + 1] ELSE NoPlayer

\* faulty variant: the winner taken from the wrong slot
winner_Other == IF state = "FINISHED" THEN other ELSE NoPlayer

\* Game.winner
winner == IF state = "FINISHED" THEN current ELSE NoPlayer

NoArg == [player |-> NoPlayer, name |-> ""]

Raise(e) == [ok |-> FALSE, val |-> <<e>>]
Return(v) == [ok |-> TRUE, val |-> v]

\* no Board object
NoBoard == [starting_grid |-> <<>>, grid |-> <<>>]

\* the state a fresh Game() and fresh Players and Boards are in
InitGame ==
    /\ state = "NEW"
    /\ current_idx = NoIdx
    /\ players = <<>>
    /\ game_id = NoId
    /\ player_id = [p \in Players |-> NoId]
    /\ \A p \in Players : validate_starting_grid(PlayerGrid(p)) = "ok"
    /\ boards = [p \in Players |-> Board(PlayerGrid(p))]
    /\ op = "init"
    /\ arg = NoArg
    /\ ret = Return(<<>>)
    /\ shot = [p \in Players |-> {}]
    /\ tally = [p \in Players |-> ZeroTally]
    /\ joins = <<>>
    /\ shooter = NoPlayer
    /\ m_state = "NEW"
    /\ m_current = NoPlayer
    /\ m_other = NoPlayer
    /\ m_boards = [p \in Players |-> Board(PlayerGrid(p))]
    /\ m_ret = Return(<<>>)
    /\ m_shot = [p \in Players |-> {}]

Requests == 1 .. NumRequests

\* no game_status request was answered
NoStatus == [ok |-> FALSE, error |-> "", state |-> "", your_board |-> <<>>, enemy_board |-> <<>>]

\* Game() as a value: the Game object of a session
NewGame == [state |-> "NEW", current_idx |-> NoIdx, players |-> <<>>]

\* no route has been called, the database is empty
InitApi ==
    /\ in_grid = <<>>
    /\ new_board = NoBoard
    /\ db = <<>>
    /\ req = [r \in Requests |-> [pc |-> "start", found |-> NoId, game_id |-> NoId, g |-> NewGame]]
    /\ status = NoStatus

Init == InitGame /\ InitApi

\* faulty variant: join that only refuses a PLAYING game
JoinStateOk_NotPlaying == state # "PLAYING"

\* join's check of the state
JoinStateOk == state = "NEW"

\* self.current_idx is None
FirstJoin == current_idx = NoIdx

\* faulty variant: join without its check of the first player's id
FirstUncommitted_Never == FALSE

\* self.players[self.current_idx].id is None
FirstUncommitted == player_id[players[current_idx + 1]] = NoId

\* faulty variant: join without its check of the player's identity
SamePlayer_Never(player) == FALSE

\* self.players[self.current_idx].id == player.id
SamePlayer(player) == player_id[players[current_idx + 1]] = player_id[player]

\* Game.join(player)
join(player) ==
    /\ op' = "join"
    /\ arg' = [player |-> player, name |-> PlayerName(player)]
    /\ UNCHANGED <<game_id, player_id, boards, shot, tally, shooter>>
    /\ IF ~JoinStateOk
       THEN /\ ret' = Raise("state")
            /\ UNCHANGED <<state, current_idx, players>>
       ELSE IF FirstJoin
       THEN /\ current_idx' = 0
            /\ players' = Append(players, player)
            /\ ret' = Return(<<>>)
            /\ UNCHANGED state
       ELSE IF FirstUncommitted
       THEN /\ ret' = Raise("no_id")
            /\ UNCHANGED <<state, current_idx, players>>
       ELSE IF SamePlayer(player)
       THEN /\ ret' = Raise("twice")
            /\ UNCHANGED <<state, current_idx, players>>
       ELSE /\ state' = "PLAYING"
            /\ players' = Append(players, player)
            /\ ret' = Return(<<>>)
            /\ UNCHANGED current_idx
    /\ joins' = IF ret'.ok THEN Append(joins, player) ELSE joins

\* faulty variant: shoot that only refuses a NEW game
ShootStateOk_NotNew == state # "NEW"

\* shoot's check of the state
ShootStateOk == state = "PLAYING"

\* self.current.name == player_name
TurnOk(player_name) == PlayerName(current) = player_name

\* faulty variant: the turn that stays with the shooter
NextTurn_Stay(idx) == idx

\* (self.current_idx + 1) % 2
NextTurn(idx) == (idx + 1) % 2

\* faulty variant: shoot that passes the turn on although the board refused
\* the shot
shoot_TurnOnRefusal(player_name, x, y) ==
    /\ op' = "shoot"
    /\ arg' = [player |-> NoPlayer, name |-> player_name]
    /\ UNCHANGED <<players, game_id, player_id, joins>>
    /\ IF ~ShootStateOk \/ current = NoPlayer \/ other = NoPlayer
       THEN /\ ret' = Raise("state")
            /\ UNCHANGED <<state, current_idx, boards, shot, tally>>
       ELSE IF ~TurnOk(player_name)
       THEN /\ ret' = Raise("turn")
            /\ UNCHANGED <<state, current_idx, boards, shot, tally>>
       ELSE LET r == Board_shoot(boards[other], x, y) IN
            /\ boards' = [boards EXCEPT ![other] = r.board]
            /\ shot' = [shot EXCEPT ![other] = NoteShot(@, r, to_1d(x, y))]
            /\ tally' = [tally EXCEPT ![other] = NoteOutcome(@, r)]
            /\ ret' = [ok |-> r.ok, val |-> r.val]
            /\ IF no_ships(r.board)
               THEN state' = "FINISHED" /\ UNCHANGED current_idx
               ELSE current_idx' = NextTurn(current_idx) /\ UNCHANGED state
    /\ shooter' = IF ret'.ok THEN current ELSE shooter

\* Game.shoot(player_name, x, y); self.current.name and self.other.board of
\* None raise AttributeError
shoot(player_name, x, y) ==
    /\ op' = "shoot"
    /\ arg' = [player |-> NoPlayer, name |-> player_name]
    /\ UNCHANGED <<players, game_id, player_id, joins>>
    /\ IF ~ShootStateOk
       THEN /\ ret' = Raise("state")
            /\ UNCHANGED <<state, current_idx, boards, shot, tally>>
       ELSE IF current = NoPlayer
       THEN /\ ret' = Raise("AttributeError")
            /\ UNCHANGED <<state, current_idx, boards, shot, tally>>
       ELSE IF ~TurnOk(player_name)
       THEN /\ ret' = Raise("turn")
            /\ UNCHANGED <<state, current_idx, boards, shot, tally>>
       ELSE IF other = NoPlayer
       THEN /\ ret' = Raise("AttributeError")
            /\ UNCHANGED <<state, current_idx, boards, shot, tally>>
       ELSE LET r == Board_shoot(boards[other], x, y) IN
            /\ boards' = [boards EXCEPT ![other] = r.board]
            /\ shot' = [shot EXCEPT ![other] = NoteShot(@, r, to_1d(x, y))]
            /\ tally' = [tally EXCEPT ![other] = NoteOutcome(@, r)]
            /\ ret' = [ok |-> r.ok, val |-> r.val]
            /\ IF ~r.ok
               THEN UNCHANGED <<state, current_idx>>
               ELSE IF no_ships(r.board)
               THEN state' = "FINISHED" /\ UNCHANGED current_idx
               ELSE current_idx' = NextTurn(current_idx) /\ UNCHANGED state
    /\ shooter' = IF ret'.ok THEN current ELSE shooter

\* the next value of an autoincremented id column
NextId(used) == IF used = {} THEN 1 ELSE (CHOOSE m \in used : \A u \in used : u <= m) + 1

\* Game.save_to_db: the commit gives the game and its players their ids
save_to_db ==
    /\ op' = "save"
    /\ arg' = NoArg
    /\ ret' = Return(<<>>)
    /\ game_id' = IF game_id = NoId THEN 1 ELSE game_id
    /\ LET used == {player_id[p] : p \in Players} \ {NoId}
           pending == {i \in 1 .. Len(players) : player_id[players[i]] = NoId}
       IN  player_id' =
               [p \in Players |->
                   IF \E i \in pending : players[i] = p
                   THEN LET i == CHOOSE k \in pending : players[k] = p
                        IN  NextId(used) + Cardinality({k \in pending : k < i})
                   ELSE player_id[p]]
    /\ UNCHANGED <<state, current_idx, players, boards, shot, tally, joins, shooter>>

\* the cells the callers of Game.shoot pass
GameAim ==
    IF Len(players) = 2
    THEN Aim(other, shot[other], GameWindow)
    ELSE MissCells \cup {to_1d(0, 0)}

Join == \E p \in Players : join(p) /\ UNCHANGED <<memvars, apivars>>

Shoot ==
    \E n \in Names : \E xy \in GameAim : shoot(n, X(xy), Y(xy)) /\ UNCHANGED <<memvars, apivars>>

Save == save_to_db /\ UNCHANGED <<memvars, apivars>>

Next == Join \/ Shoot \/ Save

Spec == Init /\ [][Next]_vars

\* a Game.shoot that succeeds: in a PLAYING game, under the name of the
\* current player, at a cell the opponent's board can be shot at
LegalShot ==
    /\ state = "PLAYING"
    /\ \E xy \in GameAim :
          /\ can_shoot_at(boards[other], X(xy), Y(xy))
          /\ shoot(PlayerName(current), X(xy), Y(xy))
    /\ UNCHANGED <<memvars, apivars>>

\* the game whose players keep shooting: a legal shot is possible as long as
\* the game is PLAYING, and one is made eventually
\* a legal shot can be made: ENABLED <<LegalShot>>_vars, as a state predicate
ShotPossible ==
    /\ state = "PLAYING"
    /\ \E xy \in GameAim : can_shoot_at(boards[other], X(xy), Y(xy))

\* the players keep playing: WF_vars(LegalShot), written out with
\* ShotPossible for ENABLED <<LegalShot>>_vars
SpecFair == Spec /\ ([]<>(~ShotPossible) \/ []<><<LegalShot>>_vars)

-----------------------------------------------------------------------------
(* A Board on its own, as the board tests use it *)

\* b.shoot(x, y) on the board of one Player object
board_shoot(p, x, y) ==
    LET r == Board_shoot(boards[p], x, y) IN
    /\ op' = "board_shoot"
    /\ arg' = [player |-> p, name |-> PlayerName(p)]
    /\ boards' = [boards EXCEPT ![p] = r.board]
    /\ shot' = [shot EXCEPT ![p] = NoteShot(@, r, to_1d(x, y))]
    /\ tally' = [tally EXCEPT ![p] = NoteOutcome(@, r)]
    /\ ret' = [ok |-> r.ok, val |-> r.val]
    /\ UNCHANGED <<state, current_idx, players, game_id, player_id, joins, shooter>>
    /\ UNCHANGED <<memvars, apivars>>

\* one board is under test in a behaviour
BoardShoot ==
    \E p \in Players :
        /\ \A q \in Players \ {p} : boards[q].grid = boards[q].starting_grid
        /\ \E xy \in Aim(p, shot[p], BoardWindow) : board_shoot(p, X(xy), Y(xy))

NextBoard == BoardShoot

SpecBoard == Init /\ [][NextBoard]_vars

-----------------------------------------------------------------------------
(* Game (plain, src/models.py) *)

\* Game.winner
m_winner == IF m_state = "FINISHED" THEN m_current ELSE NoPlayer

\* Game.join(player): what it does to the Game
m_Game_join(player) ==
    /\ UNCHANGED <<m_boards, m_shot>>
    /\ IF m_state # "NEW"
       THEN /\ m_ret' = Raise("state")
            /\ UNCHANGED <<m_state, m_current, m_other>>
       ELSE IF m_current = NoPlayer
       THEN /\ m_current' = player
            /\ m_ret' = Return(<<>>)
            /\ UNCHANGED <<m_state, m_other>>
       ELSE IF m_current = player
       THEN /\ m_ret' = Raise("twice")
            /\ UNCHANGED <<m_state, m_current, m_other>>
       ELSE /\ m_other' = player
            /\ m_state' = "PLAYING"
            /\ m_ret' = Return(<<>>)
            /\ UNCHANGED m_current

\* Game.join(player), as a call of its own
m_join(player) ==
    /\ op' = "plain_join"
    /\ arg' = [player |-> player, name |-> PlayerName(player)]
    /\ m_Game_join(player)

\* Game.shoot(player_name, x, y): what it does to the Game;
\* self.other.board of None raises AttributeError
m_Game_shoot(player_name, x, y) ==
    /\ IF m_current = NoPlayer
       THEN /\ m_ret' = Raise("no_players")
            /\ UNCHANGED <<m_state, m_current, m_other, m_boards, m_shot>>
       ELSE IF PlayerName(m_current) # player_name
       THEN /\ m_ret' = Raise("turn")
            /\ UNCHANGED <<m_state, m_current, m_other, m_boards, m_shot>>
       ELSE IF m_state # "PLAYING"
       THEN /\ m_ret' = Raise("state")
            /\ UNCHANGED <<m_state, m_current, m_other, m_boards, m_shot>>
       ELSE IF m_other = NoPlayer
       THEN /\ m_ret' = Raise("AttributeError")
            /\ UNCHANGED <<m_state, m_current, m_other, m_boards, m_shot>>
       ELSE LET r == Board_shoot(m_boards[m_other], x, y) IN
            /\ m_boards' = [m_boards EXCEPT ![m_other] = r.board]
            /\ m_shot' = [m_shot EXCEPT ![m_other] = NoteShot(@, r, to_1d(x, y))]
            /\ m_ret' = [ok |-> r.ok, val |-> r.val]
            /\ IF ~r.ok
               THEN UNCHANGED <<m_state, m_current, m_other>>
               ELSE IF no_ships(r.board)
               THEN m_state' = "FINISHED" /\ UNCHANGED <<m_current, m_other>>
               ELSE /\ m_other' = m_current
                    /\ m_current' = m_other
                    /\ UNCHANGED m_state

\* Game.shoot(player_name, x, y), as a call of its own
m_shoot(player_name, x, y) ==
    /\ op' = "plain_shoot"
    /\ arg' = [player |-> NoPlayer, name |-> player_name]
    /\ m_Game_shoot(player_name, x, y)

\* the cells the callers of the plain Game.shoot pass
MemAim ==
    IF m_other # NoPlayer
    THEN Aim(m_other, m_shot[m_other], GameWindow)
    ELSE MissCells \cup {to_1d(0, 0)}

MemJoin == \E p \in Players : m_join(p) /\ UNCHANGED <<dbvars, apivars>>

MemShoot ==
    \E n \in Names : \E xy \in MemAim : m_shoot(n, X(xy), Y(xy)) /\ UNCHANGED <<dbvars, apivars>>

NextMem == MemJoin \/ MemShoot

SpecMem == Init /\ [][NextMem]_vars

\* Both Game classes: a behaviour exercises one Game object, the other one
\* stays as constructed
DbUntouched == players = <<>> /\ game_id = NoId

MemUntouched == m_current = NoPlayer

NextGames == (MemUntouched /\ Next) \/ (DbUntouched /\ NextMem)

SpecGames == Init /\ [][NextGames]_vars

\* Both Game classes under the same calls: every join and every shoot is
\* made on the persisted Game and on the plain Game, with the same arguments;
\* the first player is committed before anybody else joins
FirstCommitted == IF players = <<>> THEN TRUE ELSE ~FirstUncommitted

BothJoin ==
    \E p \in Players :
        /\ FirstCommitted
        /\ join(p)
        /\ m_Game_join(p)
        /\ UNCHANGED apivars

BothShoot ==
    \E n \in Names : \E xy \in GameAim :
        /\ shoot(n, X(xy), Y(xy))
        /\ m_Game_shoot(n, X(xy), Y(xy))
        /\ UNCHANGED apivars

NextBoth == BothJoin \/ BothShoot \/ Save

SpecBoth == Init /\ [][NextBoth]_vars

-----------------------------------------------------------------------------
(* Board(grid): construction from a grid string, as create_game and the *)
(* validation test call it                                               *)

\* the grid with symbol s in the cells of place[s], empty elsewhere
Fleet(place) ==
    [i \in 1 .. (N * N) |->
        IF \E s \in Symbols : (i - 1) \in place[s]
        THEN CHOOSE s \in Symbols : (i - 1) \in place[s]
        ELSE NO_ACTION]

Shapes == {"row", "column", "diagonal", "bent", "split"}

\* The cells (indexes of the grid string) of a ship of the given size laid
\* from index xy on: along the string (a row, or a run that wraps over a row
\* end), down a column, diagonally, with its last cell bent down, or with a
\* gap before its last cell
ShapeCells(shape, xy, size) ==
    LET run == {xy + k : k \in 0 .. (size - 2)}
        all == CASE shape = "row" -> run \cup {xy + size - 1}
                 [] shape = "column" -> {xy + N * k : k \in 0 .. (size - 1)}
                 [] shape = "diagonal" -> {xy + (N + 1) * k : k \in 0 .. (size - 1)}
                 [] shape = "bent" -> run \cup {xy + size - 2 + N}
                 [] shape = "split" -> run \cup {xy + size}
    IN  all \cap Cells

RowAt(xy, s) == ShapeCells("row", xy, symbol_to_ship[s].size)
ColumnAt(xy, s) == ShapeCells("column", xy, symbol_to_ship[s].size)

\* the valid grids of test_starting_grid_validation (the third is VerticalGrid)
ValidGrid1 ==
    Fleet([s \in Symbols |->
        CASE s = "C" -> RowAt(0, s) [] s = "B" -> RowAt(10, s)
          [] s = "R" -> RowAt(20, s) [] s = "S" -> RowAt(30, s)
          [] s = "D" -> RowAt(40, s)])

ValidGrid2 ==
    Fleet([s \in Symbols |->
        CASE s = "C" -> RowAt(5, s) [] s = "D" -> RowAt(84, s)
          [] s = "S" -> RowAt(90, s) [] s = "R" -> RowAt(93, s)
          [] s = "B" -> RowAt(96, s)])

ValidGrid4 ==
    Fleet([s \in Symbols |->
        CASE s = "C" -> ColumnAt(0, s) [] s = "B" -> RowAt(12, s)
          [] s = "R" -> ColumnAt(59, s) [] s = "S" -> RowAt(86, s)
          [] s = "D" -> ColumnAt(89, s)])

ValidGrids == {ValidGrid1, ValidGrid2, VerticalGrid, ValidGrid4, StandardGrid}

\* the grid with ship s taken off and laid on the given cells
Relaid(grid, s, cells) ==
    [i \in 1 .. Len(grid) |->
        IF (i - 1) \in cells THEN s
        ELSE IF grid[i] = s THEN NO_ACTION ELSE grid[i]]

\* the invalid grids of test_starting_grid_validation: break in Carrier,
\* Cruiser of size 2, length 99, misplaced Carrier
InvalidGrids ==
    { Relaid(ValidGrid1, "C", {0, 1, 2, 3, 5}),
      Relaid(ValidGrid2, "R", {93, 94}),
      SubSeq(VerticalGrid, 1, N * N - 1),
      Relaid(Relaid(VerticalGrid, "B", RowAt(12, "B")), "C", {0, 11, 20, 30, 40}) }

\* grids of a wrong length or with other characters, made of grid
Malformed(grid) ==
    { grid \o <<NO_ACTION>>,
      <<>>,
      [grid EXCEPT ![N * N] = "X"],
      [grid EXCEPT ![N * N] = "c"],
      [grid EXCEPT ![N * N] = HIT],
      [grid EXCEPT ![N * N] = " "] }

\* The grids Board(grid) is called with: the grids of the test, every valid
\* grid with one ship laid anew, in every shape from every cell, and the
\* malformed grids
InputGrids ==
    ValidGrids \cup InvalidGrids \cup {Dots(N * N)}
    \cup UNION {Malformed(grid) : grid \in ValidGrids}
    \cup { Relaid(grid, s, ShapeCells(shape, xy, symbol_to_ship[s].size)) :
             grid \in ValidGrids, s \in Symbols, shape \in Shapes, xy \in Cells }

\* Board(grid): Board.__init__ validates, then sets starting_grid and grid
construct_board ==
    /\ op = "init"
    /\ op' = "Board"
    /\ arg' = NoArg
    /\ LET v == validate_starting_grid(in_grid) IN
       IF v = "ok"
       THEN new_board' = Board(in_grid) /\ ret' = Return(<<>>)
       ELSE new_board' = new_board /\ ret' = Raise(v)
    /\ UNCHANGED <<state, current_idx, players, game_id, player_id, boards,
                   shot, tally, joins, shooter>>
    /\ UNCHANGED <<memvars, in_grid, db, req, status>>

InitValidate ==
    /\ InitGame
    /\ in_grid \in InputGrids
    /\ new_board = NoBoard
    /\ db = <<>>
    /\ req = [r \in Requests |-> [pc |-> "start", found |-> NoId, game_id |-> NoId, g |-> NewGame]]
    /\ status = NoStatus

NextValidate == construct_board

SpecValidate == InitValidate /\ [][NextValidate]_vars

-----------------------------------------------------------------------------
(* create_game requests served at the same time, each in a session of its *)
(* own: what a session loaded is its copy, the commit writes it back      *)

\* the grids the requests post: a valid grid, and one that Board refuses
RequestGrids == {StandardGrid, Dots(N * N)}

\* Game.join on the Game object g of a session, for a Player object
\* [id, name, board]: [ok, val, g]
session_join(g, player) ==
    IF g.state # "NEW"
    THEN [ok |-> FALSE, val |-> <<"state">>, g |-> g]
    ELSE IF g.current_idx = NoIdx
    THEN [ok |-> TRUE, val |-> <<>>,
          g |-> [g EXCEPT !.current_idx = 0, !.players = Append(@, player)]]
    ELSE IF g.players[g.current_idx + 1].id = NoId
    THEN [ok |-> FALSE, val |-> <<"no_id">>, g |-> g]
    ELSE IF g.players[g.current_idx + 1].id = player.id
    THEN [ok |-> FALSE, val |-> <<"twice">>, g |-> g]
    ELSE [ok |-> TRUE, val |-> <<>>,
          g |-> [g EXCEPT !.state = "PLAYING", !.players = Append(@, player)]]

\* Game.get_new_game in the session of request r: a committed NEW game (the
\* query has no order, first() gives any of them), or Game()
get_new_game(r) ==
    /\ req[r].pc = "start"
    /\ LET new == {i \in 1 .. Len(db) : db[i].state = "NEW"} IN
       IF new = {}
       THEN req' = [req EXCEPT ![r] = [pc |-> "loaded", found |-> NoId,
                                       game_id |-> NoId, g |-> NewGame]]
       ELSE \E i \in new :
                req' = [req EXCEPT ![r] = [pc |-> "loaded", found |-> i,
                                           game_id |-> i, g |-> db[i]]]
    /\ UNCHANGED db

\* create_game from Board(grid) to g.join(p): the ValueError of Board ends the
\* request with an ApiException, an error of join ends it too
create_join(r) ==
    /\ req[r].pc = "loaded"
    /\ \E grid \in RequestGrids :
          IF validate_starting_grid(grid) # "ok"
          THEN req' = [req EXCEPT ![r].pc = "refused"]
          ELSE LET p == [id |-> NoId, name |-> PlayerName(r), board |-> Board(grid)]
                   j == session_join(req[r].g, p)
               IN  IF j.ok
                   THEN req' = [req EXCEPT ![r].pc = "joined", ![r].g = j.g]
                   ELSE req' = [req EXCEPT ![r].pc = "failed"]
    /\ UNCHANGED db

\* the ids of the committed players
PlayerIds == UNION {{db[i].players[k].id : k \in 1 .. Len(db[i].players)} : i \in 1 .. Len(db)}

\* g.save_to_db() of create_game: the commit inserts the session's new rows,
\* with fresh ids, and updates the game row with what the session changed
\* (a join changes the state of a loaded game, not its current_idx)
commit(r) ==
    /\ req[r].pc = "joined"
    /\ LET g == req[r].g
           mine == g.players[Len(g.players)]
           saved == [mine EXCEPT !.id = NextId(PlayerIds)]
       IN  IF req[r].game_id = NoId
           THEN /\ db' = Append(db, [g EXCEPT !.players = <<saved>>])
                /\ req' = [req EXCEPT ![r].pc = "done", ![r].game_id = Len(db) + 1,
                                      ![r].g = [g EXCEPT !.players = <<saved>>]]
           ELSE /\ db' = [db EXCEPT ![req[r].game_id] =
                            [@ EXCEPT !.state = g.state,
                                      !.players = Append(@, saved)]]
                /\ req' = [req EXCEPT ![r].pc = "done",
                                      ![r].g.players[Len(g.players)] = saved]

GetNewGame ==
    \E r \in Requests : get_new_game(r) /\ UNCHANGED <<dbvars, memvars, in_grid, new_board, status, op, arg>>

CreateJoin ==
    \E r \in Requests : create_join(r) /\ UNCHANGED <<dbvars, memvars, in_grid, new_board, status, op, arg>>

Commit ==
    \E r \in Requests : commit(r) /\ UNCHANGED <<dbvars, memvars, in_grid, new_board, status, op, arg>>

NextService == GetNewGame \/ CreateJoin \/ Commit

SpecService == Init /\ [][NextService]_vars

-----------------------------------------------------------------------------
(* game_status: GET /games with the token create_game issued *)

\* The players create_game has issued a token to: it does so after its
\* g.join(p) and g.save_to_db(), the token is {game_id, name}
TokenHolders ==
    {p \in Players :
        /\ game_id # NoId /\ player_id[p] # NoId
        /\ \E i \in 1 .. Len(players) : players[i] = p}

\* game_status(token_data) for the name of the token: g.current.name,
\* asking.board and other.board of None raise AttributeError
game_status(name) ==
    /\ op' = "game_status"
    /\ IF current = NoPlayer
       THEN status' = [NoStatus EXCEPT !.error = "AttributeError"]
       ELSE LET mine == PlayerName(current) = name
                asking == IF mine THEN current ELSE other
                opponent == IF mine THEN other ELSE current
            IN  IF asking = NoPlayer \/ opponent = NoPlayer
                THEN status' = [NoStatus EXCEPT !.error = "AttributeError"]
                ELSE status' = [ok |-> TRUE, error |-> "", state |-> state,
                                your_board |-> boards[asking].grid,
                                enemy_board |-> enemy_view(boards[opponent])]
    /\ UNCHANGED <<dbvars, memvars, in_grid, new_board, db, req>>

\* a token holder asks for the status of the game
GameStatus ==
    \E p \in TokenHolders :
        /\ arg' = [player |-> p, name |-> PlayerName(p)]
        /\ game_status(PlayerName(p))

\* the game as the models tests drive it, and the status requests, each
\* answered for the state the game is in
Unasked == status = NoStatus

NextStatus == (Unasked /\ Next) \/ GameStatus

SpecStatus == Init /\ [][NextStatus]_vars

-----------------------------------------------------------------------------
(* make_move: PATCH /games with the token create_game issued *)

\* make_move(token_data, x, y): g = Game.query.get(game_id), then
\* g.shoot(x, y). Game.shoot takes (player_name, x, y): the call lacks one
\* positional argument and raises TypeError before the body of shoot runs,
\* whatever the token, the cell and the state of the game.
make_move(name, x, y) ==
    /\ op' = "make_move"
    /\ ret' = Raise("TypeError")
    /\ UNCHANGED <<state, current_idx, players, game_id, player_id, boards,
                   shot, tally, joins, shooter>>
    /\ UNCHANGED <<memvars, apivars>>

\* a token holder posts a move
MakeMove ==
    \E p \in TokenHolders : \E xy \in GameAim :
        /\ arg' = [player |-> p, name |-> PlayerName(p)]
        /\ make_move(PlayerName(p), X(xy), Y(xy))

\* the game as the models tests drive it, and the moves posted to the route
NextMove == Next \/ MakeMove

SpecMove == Init /\ [][NextMove]_vars

-----------------------------------------------------------------------------
(* Properties *)

\* board b has a ship cell that was not shot
UnhitShipCell(b) ==
    \E i \in 1 .. (N * N) :
        b.starting_grid[i] \in Symbols /\ b.grid[i] = b.starting_grid[i]

\* the cells of ship s on a starting grid
ShipCells(starting_grid, s) == {xy \in Cells : At(starting_grid, xy) = s}

\* C1: Game.state only changes NEW -> PLAYING, by a join, and PLAYING ->
\* FINISHED, by a shoot; once FINISHED it stays FINISHED and every later join
\* and shoot fails. Stated of the persisted Game and of the plain Game.
C1_Lifecycle ==
    [][ /\ state' # state =>
            \/ state = "NEW" /\ state' = "PLAYING" /\ op' = "join"
            \/ state = "PLAYING" /\ state' = "FINISHED" /\ op' = "shoot"
        /\ m_state' # m_state =>
            \/ m_state = "NEW" /\ m_state' = "PLAYING" /\ op' = "plain_join"
            \/ m_state = "PLAYING" /\ m_state' = "FINISHED" /\ op' = "plain_shoot"
        /\ (state = "FINISHED" /\ op' \in {"join", "shoot"}) =>
            ~ret'.ok /\ state' = "FINISHED"
        /\ (m_state = "FINISHED" /\ op' \in {"plain_join", "plain_shoot"}) =>
            ~m_ret'.ok /\ m_state' = "FINISHED"
      ]_vars

\* a join was attempted, and failed, on a FINISHED game
C1_Witness == state = "FINISHED" /\ op = "join" /\ ~ret.ok

\* the same for the plain Game
C1_WitnessPlain == m_state = "FINISHED" /\ op = "plain_join" /\ ~m_ret.ok

\* C2: in a two-player PLAYING game a shoot succeeds only under the current
\* player's name; a successful shot that does not finish the game hands the
\* turn to the opponent, so successful shots alternate between the players and
\* the player who shot last is rejected when shooting again; the finishing
\* shot does not advance the turn.
C2_TurnAlternation ==
    [][ (state = "PLAYING" /\ op' = "shoot") =>
          /\ ret'.ok => arg'.name = PlayerName(current)
          /\ (ret'.ok /\ state' = "PLAYING") =>
                current' = other /\ other' = current
          /\ (ret'.ok /\ state' = "FINISHED") => current_idx' = current_idx
          /\ ret'.ok => shooter' # shooter
          /\ (shooter # NoPlayer /\ arg'.name = PlayerName(shooter)) => ~ret'.ok
      ]_vars

\* C2 without its last part: what holds of the turn whatever the names are
C2_TurnByName ==
    [][ (state = "PLAYING" /\ op' = "shoot") =>
          /\ ret'.ok => arg'.name = PlayerName(current)
          /\ (ret'.ok /\ state' = "PLAYING") =>
                current' = other /\ other' = current
          /\ (ret'.ok /\ state' = "FINISHED") => current_idx' = current_idx
          /\ ret'.ok => shooter' # shooter
          /\ (shooter # NoPlayer /\ arg'.name = PlayerName(shooter)
              /\ PlayerName(players[1]) # PlayerName(players[2])) => ~ret'.ok
      ]_vars

\* C3: with two players joined, the state is FINISHED exactly when the board
\* of the player who is not current has no ship cell left (no_ships()); while
\* PLAYING both boards have one; the shot that removes the last ship cell
\* finishes the game.
C3_FinishedIffNoShips ==
    /\ [](Len(players) = 2 =>
            /\ (state = "FINISHED") <=> ~UnhitShipCell(boards[other])
            /\ no_ships(boards[other]) <=> ~UnhitShipCell(boards[other])
            /\ state = "PLAYING" =>
                  UnhitShipCell(boards[current]) /\ UnhitShipCell(boards[other]))
    /\ [][ (op' = "shoot" /\ Len(players) = 2 /\ UnhitShipCell(boards[other])
              /\ ~UnhitShipCell(boards'[other])) => state' = "FINISHED" ]_vars

\* a game finished by the shot on the last ship cell
C3_Witness ==
    /\ state = "FINISHED" /\ op = "shoot" /\ ret.ok
    /\ ~UnhitShipCell(boards[other])

\* C4: winner() is none while NEW or PLAYING; once FINISHED it is the player
\* who fired the finishing shot, whose opponent's board has no ships, and it
\* does not change under later calls.
C4_Winner ==
    /\ [](state \in {"NEW", "PLAYING"} => winner = NoPlayer)
    /\ [](state = "FINISHED" =>
            /\ winner = shooter
            /\ \E i \in {1, 2} :
                  /\ players[i] = winner
                  /\ ~UnhitShipCell(boards[players[3 - i]]))
    /\ [][ state = "FINISHED" => winner' = winner ]_vars

\* the second joiner has won, and a later shoot was attempted
C4_Witness ==
    /\ state = "FINISHED" /\ winner = players[2]
    /\ op = "shoot" /\ ~ret.ok

\* C5: Game.shoot fails whenever the state is not PLAYING, whatever the name
\* and the cell, and touches no board.
C5_ShootNeedsPlaying ==
    [][ (state # "PLAYING" /\ op' = "shoot") => ~ret'.ok /\ boards' = boards ]_vars

\* the one joined player has tried to shoot under its own name
C5_Witness ==
    /\ state = "NEW" /\ Len(players) = 1
    /\ op = "shoot" /\ arg.name = PlayerName(players[1]) /\ ~ret.ok

\* C6: a new Game is NEW with current and other none; after the first join it
\* is NEW, current the first joiner, other none; after the second join it is
\* PLAYING, current the first joiner and other the second.
C6_JoinProtocol ==
    /\ Len(joins) = 0 => state = "NEW" /\ current = NoPlayer /\ other = NoPlayer
    /\ Len(joins) = 1 => state = "NEW" /\ current = joins[1] /\ other = NoPlayer
    /\ (Len(joins) = 2 /\ shooter = NoPlayer) =>
          state = "PLAYING" /\ current = joins[1] /\ other = joins[2]

\* the second join has just succeeded
C6_Witness == Len(joins) = 2 /\ op = "join" /\ ret.ok

\* C7: a Game holds at most two players, and they are distinct: a join by the
\* player who already joined fails and leaves the game NEW with that player,
\* a different player can join then, and every join fails once two players
\* have joined.
C7_TwoDistinctPlayers ==
    /\ [](/\ Len(players) <= 2
          /\ \A i, j \in 1 .. Len(players) : players[i] = players[j] => i = j)
    /\ [][ op' = "join" =>
            /\ (Len(players) = 1 /\ arg'.player = players[1]) =>
                  ~ret'.ok /\ state' = "NEW" /\ players' = players
            /\ Len(players) = 2 => ~ret'.ok /\ players' = players
            /\ (Len(players) = 1 /\ arg'.player # players[1]
                /\ player_id[players[1]] # NoId) =>
                  ret'.ok /\ state' = "PLAYING"
                  /\ players' = <<players[1], arg'.player>>
          ]_vars

\* the committed first player has tried to join again
C7_Witness ==
    /\ Len(players) = 1 /\ player_id[players[1]] # NoId
    /\ op = "join" /\ arg.player = players[1] /\ ~ret.ok

\* C8: starting_grid never changes; every cell of grid holds its starting
\* value or one of HIT, MISS, SUNK; a cell that left its starting value never
\* returns to it.
C8_GridCells ==
    /\ [](\A p \in Players :
            /\ Len(boards[p].grid) = N * N
            /\ \A i \in 1 .. (N * N) :
                  \/ boards[p].grid[i] = boards[p].starting_grid[i]
                  \/ boards[p].grid[i] \in Board_ACTIONS)
    /\ [][ \A p \in Players :
            /\ boards'[p].starting_grid = boards[p].starting_grid
            /\ \A i \in 1 .. (N * N) :
                  boards[p].grid[i] # boards[p].starting_grid[i] =>
                      boards'[p].grid[i] # boards'[p].starting_grid[i]
         ]_vars

\* a board showing a HIT, a MISS and a SUNK cell
C8_Witness ==
    \E p \in Players : Board_ACTIONS \subseteq CharSet(boards[p].grid)

\* C9: once Board.shoot has succeeded on a cell, every later Board.shoot on
\* that cell fails with the 'already acted upon' error and leaves the grid as
\* it is.
C9_NoSecondShot ==
    [][ \A p \in Players : \A xy \in Cells :
            (xy \in shot[p] /\ board_shoot(p, X(xy), Y(xy))) =>
                ret' = Raise("acted") /\ boards' = boards
      ]_vars

\* a second shot was refused on a board with a sunk ship
C9_Witness ==
    /\ op = "board_shoot" /\ ret = Raise("acted")
    /\ sunk_ships(boards[arg.player]) # {}
    /\ UnhitShipCell(boards[arg.player])

\* the reference rule for the outcome of a shot at xy, given the cells shot
RefOutcome(starting_grid, sh, xy) ==
    LET s == At(starting_grid, xy) IN
    IF s = NO_ACTION THEN <<"Miss">>
    ELSE IF ShipCells(starting_grid, s) \ {xy} \subseteq sh
    THEN <<"Sunk", symbol_to_ship[s].name>>
    ELSE <<"Hit", symbol_to_ship[s].name>>

\* C10: the outcome of a successful Board.shoot is 'Miss' for an empty cell,
\* 'Sunk <ship>' for the last cell of a ship not yet shot, 'Hit <ship>'
\* otherwise; each ship yields one 'Sunk', by the shot on its last cell, and
\* size - 1 'Hit' before it.
C10_Outcome ==
    /\ [][ \A p \in Players : \A xy \in Cells :
              (board_shoot(p, X(xy), Y(xy)) /\ ret'.ok) =>
                  ret'.val = RefOutcome(boards[p].starting_grid, shot[p], xy)
         ]_vars
    /\ [](\A p \in Players : \A s \in Symbols :
            LET n == Cardinality(ShipCells(boards[p].starting_grid, s) \cap shot[p])
                all == n = symbol_to_ship[s].size
            IN  /\ tally[p][s].sunk = IF all THEN 1 ELSE 0
                /\ tally[p][s].hit = n - tally[p][s].sunk)

\* the Carrier was sunk by its fifth shot, other ships still afloat
C10_Witness ==
    /\ op = "board_shoot" /\ ret = Return(<<"Sunk", "Carrier">>)
    /\ tally[arg.player]["C"] = [hit |-> 4, sunk |-> 1]
    /\ \E s \in Symbols : tally[arg.player][s].hit > 0 /\ tally[arg.player][s].sunk = 0

\* the positions (1-based) at which two grids differ
Changed(before, after) == {i \in 1 .. (N * N) : before[i] # after[i]}

\* C11: a successful Board.shoot(x, y) changes, for a miss, only cell
\* y * 10 + x, to MISS; for a hit that does not sink, only that cell, to HIT;
\* for a hit that sinks, exactly the cells where starting_grid holds the sunk
\* ship's symbol, to SUNK (the earlier HIT markers included). Every other cell
\* and every other board stays as it was.
C11_ShootFrame ==
    [][ \A p \in Players : \A xy \in Cells :
          (board_shoot(p, X(xy), Y(xy)) /\ ret'.ok) =>
              LET b == boards[p]
                  after == boards'[p].grid
                  s == At(b.starting_grid, xy)
                  changed == Changed(b.grid, after)
              IN  /\ ret'.val[1] = "Miss" =>
                        changed = {xy + 1} /\ after[xy + 1] = MISS
                  /\ ret'.val[1] = "Hit" =>
                        changed = {xy + 1} /\ after[xy + 1] = HIT
                  /\ ret'.val[1] = "Sunk" =>
                        /\ changed = {i + 1 : i \in ShipCells(b.starting_grid, s)}
                        /\ \A i \in changed : after[i] = SUNK
                        /\ \A i \in changed \ {xy + 1} : b.grid[i] = HIT
                  /\ \A q \in Players \ {p} : boards'[q] = boards[q]
      ]_vars

\* a ship was just sunk on a board that shows a MISS and the HIT of another
\* ship
C11_Witness ==
    /\ op = "board_shoot" /\ ret.ok /\ ret.val[1] = "Sunk"
    /\ LET g == boards[arg.player].grid
       IN  InGrid(SUNK, g) /\ InGrid(HIT, g) /\ InGrid(MISS, g)

\* the cells of a grid string that hold s
CellsOf(grid, s) == {xy \in 0 .. (Len(grid) - 1) : At(grid, xy) = s}

\* cells is a run of size cells along one row
RowRun(cells, size) ==
    \E x, y \in 0 .. (N - 1) :
        x + size <= N /\ cells = {to_1d(x + k, y) : k \in 0 .. (size - 1)}

\* cells is a run of size cells down one column
ColumnRun(cells, size) ==
    \E x, y \in 0 .. (N - 1) :
        y + size <= N /\ cells = {to_1d(x, y + k) : k \in 0 .. (size - 1)}

\* the valid starting grids
ValidStartingGrid(grid) ==
    /\ Len(grid) = N * N
    /\ CharSet(grid) \subseteq (Symbols \cup {NO_ACTION})
    /\ \A s \in Symbols :
          LET cells == CellsOf(grid, s)
              size == symbol_to_ship[s].size
          IN  /\ Cardinality(cells) = size
              /\ RowRun(cells, size) \/ ColumnRun(cells, size)

\* two cells side by side or one above the other
Adjacent(c, d) ==
    \/ Y(c) = Y(d) /\ (X(c) - X(d)) \in {-1, 1}
    \/ X(c) = X(d) /\ (Y(c) - Y(d)) \in {-1, 1}

\* C12: Board(grid) succeeds exactly for the grids of 100 cells over C, B, R,
\* S, D and '.' that hold each ship symbol as often as the ship is long, each
\* ship in one straight gap-free run within a row or within a column; it then
\* gives a Board with that grid. For every other grid it raises and no Board
\* is made.
C12_Validation ==
    op = "Board" =>
        /\ ret.ok <=> ValidStartingGrid(in_grid)
        /\ ret.ok => new_board = Board(in_grid)
        /\ ~ret.ok => new_board = NoBoard

\* a Board was made of a grid with a ship that ends in the last column, a
\* ship that ends in the last row, and two ships that touch
C12_Witness ==
    /\ op = "Board" /\ ret.ok /\ new_board # NoBoard
    /\ in_grid \notin ValidGrids
    /\ \E s \in Symbols : \E c \in CellsOf(in_grid, s) :
          X(c) = N - 1 /\ RowRun(CellsOf(in_grid, s), symbol_to_ship[s].size)
    /\ \E s \in Symbols : \E c \in CellsOf(in_grid, s) :
          Y(c) = N - 1 /\ ColumnRun(CellsOf(in_grid, s), symbol_to_ship[s].size)
    /\ \E s, t \in Symbols :
          /\ s # t
          /\ \E c \in CellsOf(in_grid, s) : \E d \in CellsOf(in_grid, t) : Adjacent(c, d)

\* what a grid shows of the shots alone: its markers, blank elsewhere
Markers(grid) ==
    [i \in 1 .. Len(grid) |-> IF grid[i] \in Board_ACTIONS THEN grid[i] ELSE " "]

\* the number of ship cells of a fleet
FleetSize ==
    symbol_to_ship["C"].size + symbol_to_ship["B"].size + symbol_to_ship["R"].size
    + symbol_to_ship["S"].size + symbol_to_ship["D"].size

\* the view as a function of the markers alone: the markers, with the blanks
\* shown as empty cells once the whole fleet is SUNK
ViewOfMarkers(mk) ==
    IF Count(mk, SUNK) = FleetSize
    THEN [i \in 1 .. Len(mk) |-> IF mk[i] = " " THEN NO_ACTION ELSE mk[i]]
    ELSE mk

\* C13: enemy_view() always has 100 characters, none of them a ship symbol;
\* while a ship remains it shows grid[i] where that is HIT, MISS or SUNK and
\* a space elsewhere; it is a function of the markers alone, so two boards
\* with the same markers at the same positions give the same view.
C13_EnemyView ==
    \A p \in Players :
        LET b == boards[p]
            v == enemy_view(b)
        IN  /\ Len(v) = N * N
            /\ CharSet(v) \cap Symbols = {}
            /\ UnhitShipCell(b) =>
                  \A i \in 1 .. (N * N) :
                      v[i] = IF b.grid[i] \in Board_ACTIONS THEN b.grid[i] ELSE " "
            /\ v = ViewOfMarkers(Markers(b.grid))
            /\ \A q \in Players :
                  Markers(boards[q].grid) = Markers(b.grid) => enemy_view(boards[q]) = v

\* a board with ships left, some of their cells HIT, whose view shows a HIT,
\* a SUNK and a MISS marker
C13_Witness ==
    \E p \in Players :
        /\ UnhitShipCell(boards[p])
        /\ \E s \in remaining_ships(boards[p]) :
              Count(boards[p].grid, s) < symbol_to_ship[s].size
        /\ Board_ACTIONS \subseteq CharSet(enemy_view(boards[p]))
        /\ enemy_view(boards[p]) # boards[p].grid

\* the ship cells of a starting grid
AllShipCells(starting_grid) == {xy \in Cells : At(starting_grid, xy) \in Symbols}

\* C14: once every ship cell of a board has been shot, whatever the order and
\* the misses in between, no_ships() is true, every ship cell is SUNK and
\* enemy_view() is the grid itself; before that no_ships() is false and
\* enemy_view() differs from the grid.
C14_SinkEverything ==
    \A p \in Players :
        LET b == boards[p]
            ships == AllShipCells(b.starting_grid)
        IN  IF ships \subseteq shot[p]
            THEN /\ no_ships(b)
                 /\ \A xy \in ships : At(b.grid, xy) = SUNK
                 /\ enemy_view(b) = b.grid
            ELSE /\ ~no_ships(b)
                 /\ enemy_view(b) # b.grid

\* the last ship cell of a board was just shot, after a miss, and some cell
\* of the board was never shot
C14_Witness ==
    /\ op = "board_shoot" /\ ret.ok /\ ret.val[1] = "Sunk"
    /\ AllShipCells(boards[arg.player].starting_grid) \subseteq shot[arg.player]
    /\ InGrid(MISS, boards[arg.player].grid)
    /\ InGrid(NO_ACTION, enemy_view(boards[arg.player]))

\* C15: sunk_ships() is the set of the ships all of whose cells were shot,
\* remaining_ships() the set of the ships with a cell not yet shot; the two
\* are disjoint and make up {C, B, R, S, D}; no_ships() holds exactly when
\* remaining_ships() is empty; a board nobody shot at has all five remaining.
C15_ShipSets ==
    \A p \in Players :
        LET b == boards[p]
            gone == {s \in Symbols : ShipCells(b.starting_grid, s) \subseteq shot[p]}
        IN  /\ sunk_ships(b) = gone
            /\ remaining_ships(b) = Symbols \ gone
            /\ sunk_ships(b) \cap remaining_ships(b) = {}
            /\ sunk_ships(b) \cup remaining_ships(b) = Symbols
            /\ no_ships(b) <=> remaining_ships(b) = {}
            /\ shot[p] = {} => remaining_ships(b) = Symbols

\* two ships are sunk and one of the remaining ships has a cell hit
C15_Witness ==
    \E p \in Players :
        /\ Cardinality(sunk_ships(boards[p])) = 2
        /\ \E s \in remaining_ships(boards[p]) :
              ShipCells(boards[p].starting_grid, s) \cap shot[p] # {}

\* C16: a Game.shoot that fails (wrong state, wrong turn, cell already acted
\* upon) leaves the state, the turn and every grid as they were; a Game.join
\* that fails (state not NEW, same player again, first player without id)
\* leaves the state and the players as they were.
C16_NoPartialApplication ==
    [][ /\ (op' = "shoot" /\ ~ret'.ok) =>
              /\ state' = state
              /\ current_idx' = current_idx
              /\ current' = current /\ other' = other
              /\ boards' = boards
        /\ (op' = "join" /\ ~ret'.ok) =>
              /\ state' = state
              /\ players' = players
              /\ current_idx' = current_idx
      ]_vars

\* the current player's shot was refused by the opponent's board, on which
\* another cell is HIT
C16_Witness ==
    /\ state = "PLAYING" /\ op = "shoot" /\ ret = Raise("acted")
    /\ arg.name = PlayerName(current)
    /\ InGrid(HIT, boards[other].grid)

\* C17: a successful Game.shoot changes the board of the opponent of the
\* player whose turn it is as that board's shoot(x, y) does, and returns what
\* that shoot(x, y) returns; the shooter's own grid, every starting grid and
\* every other board stay as they were.
C17_ShootOnOpponent ==
    [][ (op' = "shoot" /\ ret'.ok) =>
          \A n \in Names : \A xy \in Cells :
              shoot(n, X(xy), Y(xy)) =>
                  LET me == players[current_idx + 1]
                      opponent == players[2 - current_idx]
                      r == Board_shoot(boards[opponent], X(xy), Y(xy))
                  IN  /\ n = PlayerName(me)
                      /\ opponent # me
                      /\ ret'.val = r.val
                      /\ boards'[opponent] = r.board
                      /\ boards'[me] = boards[me]
                      /\ \A p \in Players \ {opponent} : boards'[p] = boards[p]
                      /\ \A p \in Players :
                            boards'[p].starting_grid = boards[p].starting_grid
      ]_vars

\* a shot has sunk a ship of the player who joined first, whose opponent's
\* board bears markers too
C17_Witness ==
    /\ op = "shoot" /\ ret.ok /\ ret.val[1] = "Sunk"
    /\ shooter = players[2]
    /\ InGrid(SUNK, boards[players[1]].grid)
    /\ boards[players[2]].grid # boards[players[2]].starting_grid

\* C18: while the player who joined first has no id (the game was not saved
\* since), a second join fails, with the 'commit first' error, and the game
\* stays NEW with its one player; save_to_db gives the joined players their
\* ids; once the first player has its id, the join of another player succeeds
\* and the game is PLAYING with the two of them.
C18_CommitBeforeJoin ==
    [][ /\ (op' = "join" /\ Len(players) = 1 /\ player_id[players[1]] = NoId) =>
              /\ ret' = Raise("no_id")
              /\ state = "NEW" /\ state' = "NEW"
              /\ players' = players
        /\ op' = "save" =>
              \A i \in 1 .. Len(players) : player_id'[players[i]] # NoId
        /\ (op' = "join" /\ Len(players) = 1 /\ player_id[players[1]] # NoId
            /\ arg'.player # players[1]) =>
              /\ ret'.ok
              /\ state' = "PLAYING"
              /\ players' = Append(players, arg'.player)
      ]_vars

\* another player's join was just refused for the first player's missing id
C18_Witness ==
    /\ op = "join" /\ ret = Raise("no_id")
    /\ state = "NEW" /\ Len(players) = 1 /\ arg.player # players[1]
    /\ game_id = NoId

\* the second join has succeeded on the saved game
C18_WitnessSaved ==
    /\ op = "join" /\ ret.ok /\ state = "PLAYING"
    /\ game_id # NoId /\ player_id[players[1]] # NoId
    /\ player_id[players[2]] = NoId

\* two requests that loaded the same NEW game and both joined it
BothJoined(r1, r2) ==
    /\ r1 # r2
    /\ req[r1].found # NoId /\ req[r1].found = req[r2].found
    /\ req[r1].pc \in {"joined", "done"} /\ req[r2].pc \in {"joined", "done"}

\* C19: create_game requests served at the same time never both load the
\* same NEW game with its one player and both join it, and no committed game
\* has more than two players.
C19_JoinsSerialized ==
    /\ \A i \in 1 .. Len(db) : Len(db[i].players) <= 2
    /\ \A r1, r2 \in Requests : ~BothJoined(r1, r2)

\* the players of the game other than p
OpponentsOf(p) == {players[i] : i \in 1 .. Len(players)} \ {p}

\* C20: game_status answers every token holder, in every state of the game,
\* with the state, the holder's own grid as your_board and the other
\* player's enemy_view() as enemy_board; your_board is never the grid of the
\* holder's opponent.
C20_GameStatus ==
    [][ op' = "game_status" =>
          LET p == arg'.player IN
          /\ status'.ok
          /\ status'.state = state
          /\ status'.your_board = boards[p].grid
          /\ \A q \in OpponentsOf(p) :
                /\ status'.enemy_board = enemy_view(boards[q])
                /\ boards[q].grid # boards[p].grid =>
                      status'.your_board # boards[q].grid
      ]_vars

\* C20 for the games it holds of: two players of different names
\* (PLAYING or FINISHED)
C20_DistinctNames ==
    [][ (op' = "game_status" /\ Len(players) = 2
         /\ PlayerName(players[1]) # PlayerName(players[2])) =>
          LET p == arg'.player IN
          /\ status'.ok
          /\ status'.state = state
          /\ status'.your_board = boards[p].grid
          /\ \A q \in OpponentsOf(p) :
                /\ status'.enemy_board = enemy_view(boards[q])
                /\ boards[q].grid # boards[p].grid =>
                      status'.your_board # boards[q].grid
      ]_vars

\* the part of C20 about a NEW game with one player; it does not hold, the
\* request ends in the AttributeError of other.board
C20_OnePlayer ==
    [][ (op' = "game_status" /\ Len(players) = 1) => status'.ok ]_vars

\* the part of C20 about your_board; it does not hold of two players of the
\* same name, the holder who is not current gets the current player's grid
C20_OwnBoard ==
    [][ (op' = "game_status" /\ status'.ok) =>
          status'.your_board = boards[arg'.player].grid ]_vars

\* C21: make_move with the token of the current player of a PLAYING game and
\* a cell not yet shot does what Game.shoot does under the token's name at
\* that cell, and returns the outcome of the opponent board's shoot.
C21_MakeMove ==
    [][ \A p \in Players : \A xy \in Cells :
          ( /\ state = "PLAYING" /\ p = current
            /\ can_shoot_at(boards[other], X(xy), Y(xy))
            /\ arg' = [player |-> p, name |-> PlayerName(p)]
            /\ make_move(PlayerName(p), X(xy), Y(xy)) ) =>
              LET r == Board_shoot(boards[other], X(xy), Y(xy)) IN
              /\ ret' = [ok |-> TRUE, val |-> r.val]
              /\ boards' = [boards EXCEPT ![other] = r.board]
      ]_vars

\* what make_move does instead: it raises TypeError and changes nothing
C21_AlwaysTypeError ==
    [][ op' = "make_move" =>
          /\ ret' = Raise("TypeError")
          /\ boards' = boards /\ state' = state /\ current_idx' = current_idx
      ]_vars

\* C22: Game.shoot on a game that is not PLAYING fails with the state error,
\* whatever the name given, and the turn error is raised only by a PLAYING
\* game. Stated of the persisted Game and of the plain Game.
C22_StateBeforeTurn ==
    [][ /\ (op' = "shoot" /\ state # "PLAYING") => ret' = Raise("state")
        /\ (op' = "shoot" /\ ret' = Raise("turn")) => state = "PLAYING"
        /\ (op' = "plain_shoot" /\ m_state # "PLAYING") => m_ret' = Raise("state")
        /\ (op' = "plain_shoot" /\ m_ret' = Raise("turn")) => m_state = "PLAYING"
      ]_vars

\* C22 of the persisted Game alone, of which it holds
C22_Persisted ==
    [][ /\ (op' = "shoot" /\ state # "PLAYING") => ret' = Raise("state")
        /\ (op' = "shoot" /\ ret' = Raise("turn")) => state = "PLAYING"
      ]_vars

\* what the plain Game does instead: it looks at the players and the turn
\* first, the state error is left to the current player's name
C22_PlainTurnFirst ==
    [][ (op' = "plain_shoot" /\ m_state # "PLAYING") =>
          m_ret' = IF m_current = NoPlayer THEN Raise("no_players")
                   ELSE IF arg'.name # PlayerName(m_current) THEN Raise("turn")
                   ELSE Raise("state")
      ]_vars

\* the number of cells of a board that were acted upon
Acted(b) == Cardinality(Changed(b.starting_grid, b.grid))

\* the number of cells acted upon on all boards
ActedTotal(bs) ==
    LET RECURSIVE Sum(_)
        Sum(P) == IF P = {} THEN 0
                  ELSE LET p == CHOOSE q \in P : TRUE
                       IN  Acted(bs[p]) + Sum(P \ {p})
    IN  Sum(Players)

ActedOn(i) == Acted(boards[players[i]])

\* C24: in a game of two players the second joiner's board has as many
\* cells acted upon as the first joiner's, or one more; while PLAYING the
\* difference is the turn index. A successful shot that leaves the game
\* PLAYING hands the turn to the other player.
C24_ShotBalance ==
    /\ [](Len(players) = 2 =>
             /\ ActedOn(2) - ActedOn(1) \in {0, 1}
             /\ state = "PLAYING" => ActedOn(2) - ActedOn(1) = current_idx)
    /\ [][ op' = "shoot" /\ ret'.ok /\ state' = "PLAYING" =>
             /\ current' = other /\ other' = current
             /\ current' # current
         ]_vars

\* the second joiner is to move after both players have shot, and the first
\* joiner's board was acted upon
C24_Witness ==
    /\ state = "PLAYING" /\ current_idx = 1
    /\ ActedOn(1) >= 1 /\ ActedOn(2) = ActedOn(1) + 1

\* C25: on every board MISS stands only where the starting grid is empty,
\* HIT and SUNK only where it holds a ship symbol; of each ship either all
\* cells are SUNK, or none is and one of them still shows the symbol.
C25_MarkerConsistency ==
    \A p \in Players :
        LET sg == boards[p].starting_grid
            g == boards[p].grid
        IN  /\ \A xy \in Cells :
                  /\ At(g, xy) = MISS => At(sg, xy) = NO_ACTION
                  /\ At(g, xy) \in {HIT, SUNK} => At(sg, xy) \in Symbols
            /\ \A s \in Symbols :
                  \/ \A xy \in ShipCells(sg, s) : At(g, xy) = SUNK
                  \/ /\ \A xy \in ShipCells(sg, s) : At(g, xy) # SUNK
                     /\ \E xy \in ShipCells(sg, s) : At(g, xy) = s

\* a board with a miss, a ship sunk by the last shot, and another ship
\* partly hit
C25_Witness ==
    /\ op = "board_shoot" /\ ret.ok /\ ret.val[1] = "Sunk"
    /\ \E p \in Players :
          LET sg == boards[p].starting_grid
              g == boards[p].grid
          IN  /\ InGrid(MISS, g)
              /\ \E s \in Symbols :
                    /\ \E xy \in ShipCells(sg, s) : At(g, xy) = HIT
                    /\ \E xy \in ShipCells(sg, s) : At(g, xy) = s

\* C26: under the same join and shoot calls, the first player committed
\* before the second join, the plain Game and the persisted Game accept and
\* reject the same calls, return the same strings, and stay in the same
\* state, with the same current player, other player, grids and winner().
C26_Equivalent ==
    /\ [](/\ state = m_state
          /\ current = m_current
          /\ other = m_other
          /\ \A p \in Players : boards[p] = m_boards[p]
          /\ winner = m_winner)
    /\ [][ op' \in {"join", "shoot"} =>
             /\ ret'.ok = m_ret'.ok
             /\ ret'.ok => ret'.val = m_ret'.val
         ]_vars

\* both Games are FINISHED with the same winner, and have both refused a
\* shot made after the end
C26_Witness ==
    /\ state = "FINISHED" /\ m_state = "FINISHED"
    /\ winner # NoPlayer /\ winner = m_winner
    /\ op = "shoot" /\ ~ret.ok /\ ~m_ret.ok

====
